---------------------------- MODULE Spec2Model ----------------------------
(***************************************************************************)
(* A model of the rate-limits crate: RateLimit::new (src/src/lib.rs) run   *)
(* by one or several threads against the process-wide registry             *)
(* RATE_LIMIT_HEADERS, a Mutex<Vec<RateLimitVariant>>.                     *)
(*                                                                         *)
(* Header names are strings spelled as the source spells them.  Header     *)
(* values are sequences of one-character strings, so that trimming and     *)
(* integer parsing are computed and not assumed.  Option<T> is a sequence  *)
(* of length 0 (None) or 1 (Some).                                         *)
(***************************************************************************)
EXTENDS Integers, Sequences, FiniteSets, TLC

VARIABLES
    registry,   \* the Vec<RateLimitVariant> inside RATE_LIMIT_HEADERS
    lock,       \* the Mutex: 0 when free, else the thread holding the guard
    poisoned,   \* the Mutex's poison flag
    headers,    \* per thread: the CaseSensitiveHeaderMap passed to new
    pc,         \* per thread: the position inside RateLimit::new
    remaining,  \* per thread: the local `remaining` of new (Option)
    limit,      \* per thread: the local `limit` of new (Option)
    variant,    \* per thread: the local `variant` of new (Option)
    ret,        \* per thread: what the call returned (NotReturned until then)
    lock_failed \* per thread (history): some lock() of the call returned Err

vars == <<registry, lock, poisoned, headers, pc, remaining, limit, variant, ret, lock_failed>>

---------------------------------------------------------------------------
(* Bounds of the model *)

\* Width in bits of the modelled usize (the program's is the target's pointer width).
UsizeBits == 3

\* Largest number of headers in one header map.
MaxHeaders == 4

\* Number of threads calling RateLimit::new concurrently.
NumCalls == 2

---------------------------------------------------------------------------
(* Option *)

None == <<>>

Some(x) == <<x>>

---------------------------------------------------------------------------
(* Errors and results *)

Err(e) == [tag |-> "Err", error |-> e]

Ok(v) == [tag |-> "Ok", value |-> v]

\* A panic unwinds the calling thread: the call returns nothing.
Panicked == [tag |-> "Panic"]

NotReturned == [tag |-> "NotReturned"]

---------------------------------------------------------------------------
(* The registry *)

RateLimitVariant(vendor, duration, limit_header, used_header, remaining_header, reset_header, reset_kind) ==
    [vendor |-> vendor, duration |-> duration, limit_header |-> limit_header,
     used_header |-> used_header, remaining_header |-> remaining_header,
     reset_header |-> reset_header, reset_kind |-> reset_kind]

\* Durations are in seconds.
RATE_LIMIT_HEADERS ==
    << RateLimitVariant("Standard", None, Some("RateLimit-Limit"), None,
                        "Ratelimit-Remaining", "Ratelimit-Reset", "Seconds"),
       RateLimitVariant("Reddit", Some(600), None, Some("X-Ratelimit-Used"),
                        "X-Ratelimit-Remaining", "X-Ratelimit-Reset", "Seconds"),
       RateLimitVariant("Github", Some(3600), Some("x-ratelimit-limit"), Some("x-ratelimit-used"),
                        "x-ratelimit-remaining", "x-ratelimit-reset", "Timestamp"),
       RateLimitVariant("Twitter", Some(900), Some("x-rate-limit-limit"), None,
                        "x-rate-limit-remaining", "x-rate-limit-reset", "Timestamp"),
       RateLimitVariant("Vimeo", Some(60), Some("X-RateLimit-Limit"), None,
                        "X-RateLimit-Remaining", "X-RateLimit-Reset", "ImfFixdate"),
       RateLimitVariant("Gitlab", Some(60), Some("RateLimit-Limit"), None,
                        "RateLimit-Remaining", "RateLimit-Reset", "Timestamp") >>

---------------------------------------------------------------------------
(* Header values and their parsers *)

Digits == {"0", "1", "2", "3", "4", "5", "6", "7", "8", "9"}

DigitVal == [d \in Digits |->
    CASE d = "0" -> 0 [] d = "1" -> 1 [] d = "2" -> 2 [] d = "3" -> 3 [] d = "4" -> 4
      [] d = "5" -> 5 [] d = "6" -> 6 [] d = "7" -> 7 [] d = "8" -> 8 [] d = "9" -> 9]

UsizeMax == 2 ^ UsizeBits - 1

RECURSIVE trim_start(_)
trim_start(s) == IF s # <<>> /\ Head(s) = " " THEN trim_start(Tail(s)) ELSE s

RECURSIVE trim_end(_)
trim_end(s) ==
    IF s # <<>> /\ s[Len(s)] = " " THEN trim_end(SubSeq(s, 1, Len(s) - 1)) ELSE s

trim(s) == trim_end(trim_start(s))

\* The decimal value of a sequence of digits, None once it exceeds max.
RECURSIVE parse_digits(_, _, _)
parse_digits(s, acc, max) ==
    IF s = <<>> THEN Some(acc)
    ELSE IF Head(s) \notin Digits THEN None
    ELSE LET next == acc * 10 + DigitVal[Head(s)]
         IN  IF next > max THEN None ELSE parse_digits(Tail(s), next, max)

\* str::parse::<usize> of the trimmed text.
to_usize(s) ==
    LET t == trim(s)
    IN  IF t = <<>> THEN None ELSE parse_digits(t, 0, UsizeMax)

\* Limit::new, Remaining::new, Used::new.
Count(s) ==
    LET n == to_usize(s)
    IN  IF n = None THEN Err("InvalidCount") ELSE Ok(n[1])


---------------------------------------------------------------------------
(* ResetTime *)

Seconds(n) == [kind |-> "Seconds", v |-> n]

\* An absolute instant, held as seconds since the Unix epoch (UTC).
DateTime(n) == [kind |-> "DateTime", v |-> n]

Months ==
    << <<"J","a","n">>, <<"F","e","b">>, <<"M","a","r">>, <<"A","p","r">>,
       <<"M","a","y">>, <<"J","u","n">>, <<"J","u","l">>, <<"A","u","g">>,
       <<"S","e","p">>, <<"O","c","t">>, <<"N","o","v">>, <<"D","e","c">> >>

DayNames ==
    { <<"M","o","n">>, <<"T","u","e">>, <<"W","e","d">>, <<"T","h","u">>,
      <<"F","r","i">>, <<"S","a","t">>, <<"S","u","n">> }

\* Days from 1970-01-01 to the civil date y-m-d (proleptic Gregorian).
days_from_civil(y, m, d) ==
    LET yy  == IF m <= 2 THEN y - 1 ELSE y
        era == yy \div 400
        yoe == yy - era * 400
        mp  == IF m > 2 THEN m - 3 ELSE m + 9
        doy == (153 * mp + 2) \div 5 + d - 1
        doe == yoe * 365 + yoe \div 4 - yoe \div 100 + doy
    IN  era * 146097 + doe - 719468

\* An RFC 7231 IMF-fixdate, "Tue, 15 Nov 1994 08:12:31 GMT": fixed columns.
parse_imf_fixdate(s) ==
    LET num(i, n) == parse_digits(SubSeq(s, i, i + n - 1), 0, 9999)
        shaped == /\ Len(s) = 29
                  /\ SubSeq(s, 1, 3) \in DayNames
                  /\ s[4] = "," /\ s[5] = " " /\ s[8] = " " /\ s[12] = " "
                  /\ s[17] = " " /\ s[20] = ":" /\ s[23] = ":" /\ s[26] = " "
                  /\ SubSeq(s, 27, 29) = <<"G","M","T">>
                  /\ \E m \in 1..12 : Months[m] = SubSeq(s, 9, 11)
                  /\ \A f \in {<<6, 2>>, <<13, 4>>, <<18, 2>>, <<21, 2>>, <<24, 2>>} :
                        num(f[1], f[2]) # None
    IN  IF ~shaped THEN None
        ELSE LET day == num(6, 2)[1]
                 mon == CHOOSE m \in 1..12 : Months[m] = SubSeq(s, 9, 11)
                 yr  == num(13, 4)[1]
                 hh  == num(18, 2)[1]
                 mi  == num(21, 2)[1]
                 ss  == num(24, 2)[1]
             IN  IF day \in 1..31 /\ yr >= 1970 /\ hh < 24 /\ mi < 60 /\ ss < 60
                 THEN Some(days_from_civil(yr, mon, day) * 86400 + hh * 3600 + mi * 60 + ss)
                 ELSE None

\* ResetTime::new(value, kind)
ResetTime(value, kind) ==
    CASE kind = "Seconds" ->
            LET n == to_usize(value)
            IN  IF n = None THEN Err("InvalidCount") ELSE Ok(Seconds(n[1]))
      [] kind = "Timestamp" ->
            LET n == to_usize(value)
            IN  IF n = None THEN Err("InvalidTimestamp") ELSE Ok(DateTime(n[1]))
      [] kind = "ImfFixdate" ->
            LET d == parse_imf_fixdate(trim(value))
            IN  IF d = None THEN Err("InvalidDate") ELSE Ok(DateTime(d[1]))

---------------------------------------------------------------------------
(* The header map *)

\* str::to_ascii_lowercase on the header names of the model.
to_ascii_lowercase(n) ==
    CASE n \in {"RateLimit-Limit"} -> "ratelimit-limit"
      [] n \in {"Ratelimit-Remaining", "RateLimit-Remaining"} -> "ratelimit-remaining"
      [] n \in {"Ratelimit-Reset", "RateLimit-Reset"} -> "ratelimit-reset"
      [] n \in {"X-Ratelimit-Used", "x-ratelimit-used"} -> "x-ratelimit-used"
      [] n \in {"x-ratelimit-limit", "X-RateLimit-Limit", "X-RATELIMIT-LIMIT"} -> "x-ratelimit-limit"
      [] n \in {"x-ratelimit-remaining", "X-Ratelimit-Remaining", "X-RateLimit-Remaining"}
            -> "x-ratelimit-remaining"
      [] n \in {"x-ratelimit-reset", "X-Ratelimit-Reset", "X-RateLimit-Reset"} -> "x-ratelimit-reset"
      [] n \in {"Retry-After", "retry-after"} -> "retry-after"
      [] OTHER -> n

eq_ignore_ascii_case(a, b) == to_ascii_lowercase(a) = to_ascii_lowercase(b)

\* Mutant of get: the header stored under any spelling of k.
get_ignore_case(header_map, k) ==
    LET same == {n \in DOMAIN header_map : eq_ignore_ascii_case(n, k)}
    IN  IF same = {} THEN None ELSE Some(header_map[CHOOSE n \in same : TRUE])

\* CaseSensitiveHeaderMap::get: the header stored under exactly this spelling.
get(header_map, k) ==
    IF k \in DOMAIN header_map THEN Some(header_map[k]) ELSE None

---------------------------------------------------------------------------
(* The registry scans of RateLimit, each run while holding the guard *)

RECURSIVE scan_limit(_, _, _)
scan_limit(variants, header_map, i) ==
    IF i > Len(variants) THEN Err("MissingLimit")
    ELSE LET v == variants[i]
         IN  IF v.limit_header # None /\ get(header_map, v.limit_header[1]) # None
             THEN Ok([value |-> get(header_map, v.limit_header[1])[1], variant |-> v])
             ELSE scan_limit(variants, header_map, i + 1)

\* Mutant of get_rate_limit_header: the last matching variant wins.
get_rate_limit_header_last(variants, header_map) ==
    LET m == {i \in 1..Len(variants) :
                 variants[i].limit_header # None
                 /\ get(header_map, variants[i].limit_header[1]) # None}
        i == CHOOSE i \in m : \A j \in m : j <= i
    IN  IF m = {} THEN Err("MissingLimit")
        ELSE Ok([value |-> get(header_map, variants[i].limit_header[1])[1],
                 variant |-> variants[i]])

get_rate_limit_header(variants, header_map) == scan_limit(variants, header_map, 1)

RECURSIVE scan_used(_, _, _)
scan_used(variants, header_map, i) ==
    IF i > Len(variants) THEN Err("MissingUsed")
    ELSE LET v == variants[i]
         IN  IF v.used_header # None /\ get(header_map, v.used_header[1]) # None
             THEN Ok([value |-> get(header_map, v.used_header[1])[1], variant |-> v])
             ELSE scan_used(variants, header_map, i + 1)

get_used_header(variants, header_map) == scan_used(variants, header_map, 1)

RECURSIVE scan_remaining(_, _, _)
scan_remaining(variants, header_map, i) ==
    IF i > Len(variants) THEN Err("MissingRemaining")
    ELSE LET v == variants[i]
         IN  IF get(header_map, v.remaining_header) # None
             THEN Ok(get(header_map, v.remaining_header)[1])
             ELSE scan_remaining(variants, header_map, i + 1)

get_remaining_header(variants, header_map) == scan_remaining(variants, header_map, 1)

RECURSIVE scan_reset(_, _, _)
scan_reset(variants, header_map, i) ==
    IF i > Len(variants) THEN Err("MissingRemaining")
    ELSE LET v == variants[i]
         IN  IF get(header_map, v.reset_header) # None
             THEN Ok([value |-> get(header_map, v.reset_header)[1], kind |-> v.reset_kind])
             ELSE scan_reset(variants, header_map, i + 1)

\* Mutant of get_reset_header: the kind is that of the variant whose limit
\* header matched, when one did.
get_reset_header_limit_kind(variants, header_map) ==
    LET r == scan_reset(variants, header_map, 1)
        l == scan_limit(variants, header_map, 1)
    IN  IF r.tag = "Ok" /\ l.tag = "Ok"
        THEN Ok([value |-> r.value.value, kind |-> l.value.variant.reset_kind])
        ELSE r

\* Mutant of get_reset_header: a missing reset header is reported as MissingLimit.
get_reset_header_missing_limit(variants, header_map) ==
    LET r == scan_reset(variants, header_map, 1)
    IN  IF r.tag = "Err" THEN Err("MissingLimit") ELSE r

get_reset_header(variants, header_map) == scan_reset(variants, header_map, 1)

\* Mutant of get_retry_after_header: the name is looked up in lower case.
get_retry_after_header_lower(header_map) == get(header_map, "retry-after")

get_retry_after_header(header_map) == get(header_map, "Retry-After")

---------------------------------------------------------------------------
(* RateLimit::new as one sequential run *)

RateLimit(l, r, reset, window, vendor) ==
    [limit |-> l, remaining |-> r, reset |-> reset, window |-> window, vendor |-> vendor]

\* used.count + remaining.count on usize: a build with overflow checks panics on
\* overflow, a build without them wraps.
add_usize(a, b, overflow_checks) ==
    IF a + b <= UsizeMax THEN Ok(a + b)
    ELSE IF overflow_checks THEN Panicked
    ELSE Ok((a + b) % (2 ^ UsizeBits))

\* The reset of new, once limit and variant are resolved.
resolve_reset(variants, header_map) ==
    LET seconds == get_retry_after_header(header_map)
    IN  IF seconds # None THEN ResetTime(seconds[1], "Seconds")
        ELSE LET r == get_reset_header(variants, header_map)
             IN  IF r.tag = "Err" THEN r ELSE ResetTime(r.value.value, r.value.kind)

\* The (limit, variant) pair of new, given the parsed remaining.
resolve_limit(variants, header_map, remaining_count, overflow_checks) ==
    LET l == get_rate_limit_header(variants, header_map)
        u == get_used_header(variants, header_map)
    IN  IF l.tag = "Ok"
        THEN LET n == Count(l.value.value)
             IN  IF n.tag = "Err" THEN n
                 ELSE Ok([count |-> n.value, variant |-> l.value.variant])
        ELSE IF u.tag = "Ok"
        THEN LET n == Count(u.value.value)
             IN  IF n.tag = "Err" THEN n
                 ELSE LET sum == add_usize(n.value, remaining_count, overflow_checks)
                      IN  IF sum.tag # "Ok" THEN sum
                          ELSE Ok([count |-> sum.value, variant |-> u.value.variant])
        ELSE Err("MissingUsed")

RateLimitNew(variants, header_map, overflow_checks) ==
    LET value == get_remaining_header(variants, header_map)
    IN  IF value.tag = "Err" THEN value
        ELSE LET rem == Count(value.value)
             IN  IF rem.tag = "Err" THEN rem
                 ELSE LET lv == resolve_limit(variants, header_map, rem.value, overflow_checks)
                      IN  IF lv.tag # "Ok" THEN lv
                          ELSE LET reset == resolve_reset(variants, header_map)
                               IN  IF reset.tag = "Err" THEN reset
                                   ELSE Ok(RateLimit(lv.value.count, rem.value, reset.value,
                                                     lv.value.variant.duration,
                                                     lv.value.variant.vendor))

---------------------------------------------------------------------------
(* Inputs *)

HttpDate ==
    << "T","u","e",","," ","1","5"," ","N","o","v"," ","1","9","9","4"," ",
       "0","8",":","1","2",":","3","1"," ","G","M","T" >>

ValueUniverse == { <<" ", "2", " ">>, <<"5">>, <<"0", " ", "f">>, HttpDate }

NameUniverse ==
    { "RateLimit-Limit", "x-ratelimit-limit", "X-Ratelimit-Used",
      "Ratelimit-Remaining", "X-Ratelimit-Remaining",
      "x-ratelimit-reset", "X-Ratelimit-Reset", "X-RateLimit-Reset",
      "Retry-After" }

HeaderMaps ==
    UNION { [S -> ValueUniverse] :
            S \in {T \in SUBSET NameUniverse : Cardinality(T) <= MaxHeaders} }

Hdr(n1, v1, n2, v2, n3, v3) == (n1 :> v1) @@ (n2 :> v2) @@ (n3 :> v3)

\* Header maps of the concurrent runs: a limit header with Retry-After, and a
\* used header (the sum overflows a usize of UsizeBits = 3) with a reset header.
ConcHeaders ==
    { Hdr("x-ratelimit-limit", <<"5">>, "Ratelimit-Remaining", <<" ", "2", " ">>,
          "Retry-After", <<"5">>),
      Hdr("X-Ratelimit-Used", <<"5">>, "X-Ratelimit-Remaining", <<"5">>,
          "X-Ratelimit-Reset", <<" ", "2", " ">>) }

---------------------------------------------------------------------------
(* The state machine *)

Threads == DOMAIN pc

InitShared ==
    /\ registry = RATE_LIMIT_HEADERS
    /\ lock = 0
    /\ poisoned = FALSE

InitCalls(T) ==
    /\ pc = [c \in T |-> "get_remaining_header"]
    /\ remaining = [c \in T |-> None]
    /\ limit = [c \in T |-> None]
    /\ variant = [c \in T |-> None]
    /\ ret = [c \in T |-> NotReturned]
    /\ lock_failed = [c \in T |-> FALSE]

\* One call of RateLimit::new on any header map.
Init ==
    /\ InitShared
    /\ headers \in [{1} -> HeaderMaps]
    /\ InitCalls({1})

\* NumCalls threads, each in one call of RateLimit::new.
InitConc ==
    /\ InitShared
    /\ headers \in [1..NumCalls -> ConcHeaders]
    /\ InitCalls(1..NumCalls)

\* Mutant of drop_guard: the guard outlives the lookup.
drop_guard_leaked(c) == c

\* The state of the Mutex once the guard `variants` goes out of scope.
drop_guard(c) == 0

Goto(c, p) == pc' = [pc EXCEPT ![c] = p]

Return(c, r) ==
    /\ pc' = [pc EXCEPT ![c] = "done"]
    /\ ret' = [ret EXCEPT ![c] = r]

\* get_remaining_header: RATE_LIMIT_HEADERS.lock().map_err(|_| Error::Lock)?
lock_remaining(c) ==
    /\ pc[c] = "get_remaining_header"
    /\ lock = 0
    /\ IF poisoned
       THEN /\ Return(c, Err("Lock"))
            /\ lock_failed' = [lock_failed EXCEPT ![c] = TRUE]
            /\ UNCHANGED lock
       ELSE /\ lock' = c
            /\ UNCHANGED lock_failed
            /\ Goto(c, "remaining_scan")
            /\ UNCHANGED ret
    /\ UNCHANGED <<registry, poisoned, headers, remaining, limit, variant>>

\* get_remaining_header's scan, then Remaining::new(value.to_str()?)?
remaining_scan(c) ==
    /\ pc[c] = "remaining_scan"
    /\ lock = c
    /\ lock' = drop_guard(c)
    /\ LET value == get_remaining_header(registry, headers[c])
           rem == Count(value.value)
       IN  IF value.tag = "Err"
           THEN Return(c, value) /\ UNCHANGED remaining
           ELSE IF rem.tag = "Err"
           THEN Return(c, rem) /\ UNCHANGED remaining
           ELSE /\ remaining' = [remaining EXCEPT ![c] = Some(rem.value)]
                /\ Goto(c, "get_rate_limit_header")
                /\ UNCHANGED ret
    /\ UNCHANGED <<registry, poisoned, headers, limit, variant, lock_failed>>

\* get_rate_limit_header's lock(): its Err makes `if let Ok(..)` fall through
\* to get_used_header.
lock_limit(c) ==
    /\ pc[c] = "get_rate_limit_header"
    /\ lock = 0
    /\ IF poisoned
       THEN /\ Goto(c, "get_used_header")
            /\ lock_failed' = [lock_failed EXCEPT ![c] = TRUE]
            /\ UNCHANGED lock
       ELSE /\ lock' = c
            /\ UNCHANGED lock_failed
            /\ Goto(c, "limit_scan")
    /\ UNCHANGED <<registry, poisoned, headers, remaining, limit, variant, ret>>

\* Mutant of limit_scan: a limit that does not parse falls back to the used header.
limit_scan_fallback(c) ==
    /\ pc[c] = "limit_scan"
    /\ lock = c
    /\ lock' = drop_guard(c)
    /\ LET l == get_rate_limit_header(registry, headers[c])
           n == Count(l.value.value)
       IN  IF l.tag = "Err" \/ n.tag = "Err"
           THEN Goto(c, "get_used_header") /\ UNCHANGED <<limit, variant, ret>>
           ELSE /\ limit' = [limit EXCEPT ![c] = Some(n.value)]
                /\ variant' = [variant EXCEPT ![c] = Some(l.value.variant)]
                /\ Goto(c, "get_retry_after_header")
                /\ UNCHANGED ret
    /\ UNCHANGED <<registry, poisoned, headers, remaining, lock_failed>>

\* get_rate_limit_header's scan, then Limit::new(limit.to_str()?)?
limit_scan(c) ==
    /\ pc[c] = "limit_scan"
    /\ lock = c
    /\ lock' = drop_guard(c)
    /\ LET l == get_rate_limit_header(registry, headers[c])
           n == Count(l.value.value)
       IN  IF l.tag = "Err"
           THEN Goto(c, "get_used_header") /\ UNCHANGED <<limit, variant, ret>>
           ELSE IF n.tag = "Err"
           THEN Return(c, n) /\ UNCHANGED <<limit, variant>>
           ELSE /\ limit' = [limit EXCEPT ![c] = Some(n.value)]
                /\ variant' = [variant EXCEPT ![c] = Some(l.value.variant)]
                /\ Goto(c, "get_retry_after_header")
                /\ UNCHANGED ret
    /\ UNCHANGED <<registry, poisoned, headers, remaining, lock_failed>>

\* get_used_header's lock(): its Err ends in `return Err(Error::MissingUsed)`.
lock_used(c) ==
    /\ pc[c] = "get_used_header"
    /\ lock = 0
    /\ IF poisoned
       THEN /\ Return(c, Err("MissingUsed"))
            /\ lock_failed' = [lock_failed EXCEPT ![c] = TRUE]
            /\ UNCHANGED lock
       ELSE /\ lock' = c
            /\ UNCHANGED lock_failed
            /\ Goto(c, "used_scan")
            /\ UNCHANGED ret
    /\ UNCHANGED <<registry, poisoned, headers, remaining, limit, variant>>

\* get_used_header's scan, then Used::new(used.to_str()?)? and the sum.
used_scan(c) ==
    /\ pc[c] = "used_scan"
    /\ lock = c
    /\ lock' = drop_guard(c)
    /\ LET u == get_used_header(registry, headers[c])
           n == Count(u.value.value)
       IN  IF u.tag = "Err"
           THEN Return(c, Err("MissingUsed")) /\ UNCHANGED <<limit, variant>>
           ELSE IF n.tag = "Err"
           THEN Return(c, n) /\ UNCHANGED <<limit, variant>>
           ELSE \E overflow_checks \in BOOLEAN :
                  LET sum == add_usize(n.value, remaining[c][1], overflow_checks)
                  IN  IF sum.tag # "Ok"
                      THEN Return(c, sum) /\ UNCHANGED <<limit, variant>>
                      ELSE /\ limit' = [limit EXCEPT ![c] = Some(sum.value)]
                           /\ variant' = [variant EXCEPT ![c] = Some(u.value.variant)]
                           /\ Goto(c, "get_retry_after_header")
                           /\ UNCHANGED ret
    /\ UNCHANGED <<registry, poisoned, headers, remaining, lock_failed>>

\* The record new returns once reset is resolved.
Assemble(c, reset) ==
    Ok(RateLimit(limit[c][1], remaining[c][1], reset,
                 variant[c][1].duration, variant[c][1].vendor))

\* get_retry_after_header (no lock), then ResetTime::new(seconds, Seconds)?
retry_after(c) ==
    /\ pc[c] = "get_retry_after_header"
    /\ LET seconds == get_retry_after_header(headers[c])
           reset == ResetTime(seconds[1], "Seconds")
       IN  IF seconds = None
           THEN Goto(c, "get_reset_header") /\ UNCHANGED ret
           ELSE IF reset.tag = "Err"
           THEN Return(c, reset)
           ELSE Return(c, Assemble(c, reset.value))
    /\ UNCHANGED <<registry, lock, poisoned, headers, remaining, limit, variant, lock_failed>>

\* get_reset_header: RATE_LIMIT_HEADERS.lock().map_err(|_| Error::Lock)?
lock_reset(c) ==
    /\ pc[c] = "get_reset_header"
    /\ lock = 0
    /\ IF poisoned
       THEN /\ Return(c, Err("Lock"))
            /\ lock_failed' = [lock_failed EXCEPT ![c] = TRUE]
            /\ UNCHANGED lock
       ELSE /\ lock' = c
            /\ UNCHANGED lock_failed
            /\ Goto(c, "reset_scan")
            /\ UNCHANGED ret
    /\ UNCHANGED <<registry, poisoned, headers, remaining, limit, variant>>

\* get_reset_header's scan, then ResetTime::new(value, kind)? and Ok(RateLimit {..})
reset_scan(c) ==
    /\ pc[c] = "reset_scan"
    /\ lock = c
    /\ lock' = drop_guard(c)
    /\ LET r == get_reset_header(registry, headers[c])
           reset == ResetTime(r.value.value, r.value.kind)
       IN  IF r.tag = "Err"
           THEN Return(c, r)
           ELSE IF reset.tag = "Err"
           THEN Return(c, reset)
           ELSE Return(c, Assemble(c, reset.value))
    /\ UNCHANGED <<registry, poisoned, headers, remaining, limit, variant, lock_failed>>

\* A thread of the process panics while it holds the guard: the Mutex is
\* poisoned from then on.
Poison ==
    /\ lock = 0
    /\ ~poisoned
    /\ poisoned' = TRUE
    /\ UNCHANGED <<registry, lock, headers, pc, remaining, limit, variant, ret, lock_failed>>

Next ==
    \/ \E c \in Threads : lock_remaining(c)
    \/ \E c \in Threads : remaining_scan(c)
    \/ \E c \in Threads : lock_limit(c)
    \/ \E c \in Threads : limit_scan(c)
    \/ \E c \in Threads : lock_used(c)
    \/ \E c \in Threads : used_scan(c)
    \/ \E c \in Threads : retry_after(c)
    \/ \E c \in Threads : lock_reset(c)
    \/ \E c \in Threads : reset_scan(c)

NextPoison == Next \/ Poison

\* One call, on every header map of the bounds.
Spec == Init /\ [][Next]_vars

\* NumCalls concurrent calls.
SpecConc == InitConc /\ [][Next]_vars

\* While some thread can take a step of its call, some thread does.
FairSpecConc == SpecConc /\ WF_vars(Next)

\* NumCalls concurrent calls and a Mutex that may become poisoned.
SpecPoison == InitConc /\ [][NextPoison]_vars

---------------------------------------------------------------------------
(* Vocabulary of the properties *)

Done(c) == pc[c] = "done"

\* The call of thread c has resolved limit and variant (it is past step 2 of new).
LimitResolved(c) == limit[c] # None

Min(S) == CHOOSE x \in S : \A y \in S : x <= y

\* Positions in the registry of the variants whose header is in the map h,
\* spelled exactly as the registry spells it.
LimitMatches(h) ==
    {i \in 1..Len(registry) :
        registry[i].limit_header # None /\ registry[i].limit_header[1] \in DOMAIN h}

UsedMatches(h) ==
    {i \in 1..Len(registry) :
        registry[i].used_header # None /\ registry[i].used_header[1] \in DOMAIN h}

RemainingMatches(h) ==
    {i \in 1..Len(registry) : registry[i].remaining_header \in DOMAIN h}

ResetMatches(h) ==
    {i \in 1..Len(registry) : registry[i].reset_header \in DOMAIN h}

\* The map h without the header named k.
Without(h, k) == [n \in DOMAIN h \ {k} |-> h[n]]

\* Every name the registry looks up, and other spellings of them.
LookupNames ==
    NameUniverse
    \cup {"Ratelimit-Reset", "x-ratelimit-remaining", "X-RateLimit-Limit",
          "X-RATELIMIT-LIMIT", "retry-after"}

---------------------------------------------------------------------------
(* C1 *)

\* C1: whenever a call has resolved remaining and limit and its headers hold
\* Retry-After with an integer value N, the call returns Ok with reset =
\* Seconds(N), whatever vendor reset header is present; and its limit,
\* remaining, vendor and window are those resolved from the same headers with
\* Retry-After removed.
C1_RetryAfterOverrides ==
    \A c \in Threads :
        LET h == headers[c] IN
        (/\ Done(c)
         /\ LimitResolved(c)
         /\ "Retry-After" \in DOMAIN h
         /\ to_usize(h["Retry-After"]) # None)
        => LET h0 == Without(h, "Retry-After")
               r0 == Count(get_remaining_header(registry, h0).value)
           IN  /\ ret[c].tag = "Ok"
               /\ ret[c].value.reset = Seconds(to_usize(h["Retry-After"])[1])
               /\ r0 = Ok(ret[c].value.remaining)
               /\ \E oc \in BOOLEAN :
                     LET lv == resolve_limit(registry, h0, r0.value, oc)
                     IN  /\ lv.tag = "Ok"
                         /\ lv.value.count = ret[c].value.limit
                         /\ lv.value.variant.vendor = ret[c].value.vendor
                         /\ lv.value.variant.duration = ret[c].value.window

\* A call returned Seconds(2) from Retry-After although a vendor reset header
\* of Timestamp kind with another value was present.
C1_Witness ==
    \E c \in Threads :
        /\ Done(c)
        /\ ret[c].tag = "Ok"
        /\ "Retry-After" \in DOMAIN headers[c]
        /\ "x-ratelimit-reset" \in DOMAIN headers[c]
        /\ headers[c]["x-ratelimit-reset"] = <<"5">>
        /\ ret[c].value.reset = Seconds(2)

---------------------------------------------------------------------------
(* C2 *)

\* No two headers of the map differ only in letter case.
NoCaseClash(h) ==
    \A n, m \in DOMAIN h : eq_ignore_ascii_case(n, m) => n = m

---------------------------------------------------------------------------
(* C3 *)

\* The call of thread c is past the resolution of limit (step 2 of new),
\* whether that step produced a limit or ended the call.
PastLimit(c) ==
    \/ pc[c] \in {"get_retry_after_header", "get_reset_header", "reset_scan"}
    \/ Done(c) /\ remaining[c] # None

\* C3: once limit is resolved, it is the parsed value of the first registered
\* limit header present (also when a used header is present); when no limit
\* header is present but a used header is, and both used and remaining parse,
\* a limit is resolved and equals the exact sum used + remaining.
C3_LimitLiteralOrExactSum ==
    \A c \in Threads :
        LET h == headers[c] IN
        PastLimit(c)
        => /\ (LimitMatches(h) # {} /\ LimitResolved(c))
              => Some(limit[c][1]) = to_usize(h[registry[Min(LimitMatches(h))].limit_header[1]])
           /\ (LimitMatches(h) = {} /\ UsedMatches(h) # {})
              => LET used == to_usize(h[registry[Min(UsedMatches(h))].used_header[1]])
                 IN  used # None => limit[c] = Some(used[1] + remaining[c][1])

---------------------------------------------------------------------------
(* C4 *)

\* The variant that C4 names: the first whose limit header is present, else
\* the first whose used header is present.
LimitOrUsedVariant(h) ==
    IF LimitMatches(h) # {} THEN registry[Min(LimitMatches(h))]
    ELSE registry[Min(UsedMatches(h))]

\* C4: vendor and window of every Ok result are those of the first variant in
\* registry order whose limit header is present, else of the first whose used
\* header is present, whatever variants matched remaining and reset; window
\* is None exactly when that variant has no duration.
C4_VendorWindowFromLimitVariant ==
    \A c \in Threads :
        (Done(c) /\ ret[c].tag = "Ok")
        => LET v == LimitOrUsedVariant(headers[c])
           IN  /\ LimitMatches(headers[c]) \cup UsedMatches(headers[c]) # {}
               /\ ret[c].value.vendor = v.vendor
               /\ ret[c].value.window = v.duration
               /\ (ret[c].value.window = None) <=> (v.duration = None)

\* An Ok result with the limit headers of two variants present, remaining
\* matched by a third variant and reset by the second: vendor and window are
\* the first variant's (Standard, no window).
C4_Witness ==
    \E c \in Threads :
        /\ Done(c)
        /\ ret[c].tag = "Ok"
        /\ LimitMatches(headers[c]) = {1, 3, 6}
        /\ RemainingMatches(headers[c]) = {2}
        /\ ResetMatches(headers[c]) = {3}
        /\ ret[c].value.vendor = "Standard"
        /\ ret[c].value.window = None

---------------------------------------------------------------------------
(* C5 *)

\* C5: without Retry-After, a call that has resolved its limit takes reset
\* from the first variant in registry order whose reset header is present and
\* parses it by that variant's kind: Seconds gives Seconds(n), Timestamp gives
\* DateTime(epoch + n), ImfFixdate gives DateTime(the date); every reset
\* returned is a Seconds or a DateTime.
C5_ResetByFirstResetVariant ==
    \A c \in Threads :
        LET h == headers[c] IN
        Done(c)
        => /\ (LimitResolved(c) /\ "Retry-After" \notin DOMAIN h /\ ResetMatches(h) # {})
              => LET v == registry[Min(ResetMatches(h))]
                     n == to_usize(h[v.reset_header])
                     d == parse_imf_fixdate(trim(h[v.reset_header]))
                 IN  /\ (v.reset_kind = "Seconds" /\ n # None)
                        => ret[c].tag = "Ok" /\ ret[c].value.reset = Seconds(n[1])
                     /\ (v.reset_kind = "Timestamp" /\ n # None)
                        => ret[c].tag = "Ok" /\ ret[c].value.reset = DateTime(0 + n[1])
                     /\ (v.reset_kind = "ImfFixdate" /\ d # None)
                        => ret[c].tag = "Ok" /\ ret[c].value.reset = DateTime(d[1])
                     /\ ret[c].tag = "Ok" =>
                           \/ v.reset_kind = "Seconds" /\ n # None
                           \/ v.reset_kind = "Timestamp" /\ n # None
                           \/ v.reset_kind = "ImfFixdate" /\ d # None
           /\ ret[c].tag = "Ok" => ret[c].value.reset.kind \in {"Seconds", "DateTime"}

\* An Ok result whose reset is the HTTP-date of the ImfFixdate variant (Vimeo)
\* while limit came from another variant.
C5_Witness ==
    \E c \in Threads :
        /\ Done(c)
        /\ ret[c].tag = "Ok"
        /\ "Retry-After" \notin DOMAIN headers[c]
        /\ registry[Min(ResetMatches(headers[c]))].reset_kind = "ImfFixdate"
        /\ ret[c].value.vendor # registry[Min(ResetMatches(headers[c]))].vendor
        /\ ret[c].value.reset = DateTime(784887151)

---------------------------------------------------------------------------
(* C6 *)

\* C6: with exactly the headers X-Ratelimit-Used: u, X-Ratelimit-Remaining: r,
\* X-Ratelimit-Reset: s, the call returns Ok with limit = u + r, remaining = r
\* and reset = Seconds(s).
C6_RedditHeaders ==
    \A c \in Threads :
        LET h == headers[c] IN
        (/\ Done(c)
         /\ DOMAIN h = {"X-Ratelimit-Used", "X-Ratelimit-Remaining", "X-Ratelimit-Reset"}
         /\ \A n \in DOMAIN h : to_usize(h[n]) # None)
        => /\ ret[c].tag = "Ok"
           /\ ret[c].value.limit =
                 to_usize(h["X-Ratelimit-Used"])[1] + to_usize(h["X-Ratelimit-Remaining"])[1]
           /\ ret[c].value.remaining = to_usize(h["X-Ratelimit-Remaining"])[1]
           /\ ret[c].value.reset = Seconds(to_usize(h["X-Ratelimit-Reset"])[1])

---------------------------------------------------------------------------
(* C7 *)

\* The text of the first registered remaining / limit header present in h.
RemainingText(h) == h[registry[Min(RemainingMatches(h))].remaining_header]

LimitText(h) == h[registry[Min(LimitMatches(h))].limit_header[1]]

\* C7: a finished call returned the error of the first step that failed, in
\* the order remaining, limit/used, reset: MissingRemaining when no remaining
\* header is present, whatever else is in the map; with remaining resolved,
\* MissingUsed when neither a limit nor a used header is present; with limit
\* resolved too, MissingRemaining when neither Retry-After nor a reset header
\* is present; a value that does not parse ends the call at its own step,
\* before any later header is missed.  MissingLimit is never returned.
C7_FirstFailingStepDecides ==
    \A c \in Threads :
        LET h == headers[c] IN
        Done(c)
        => /\ RemainingMatches(h) = {} => ret[c] = Err("MissingRemaining")
           /\ (RemainingMatches(h) # {} /\ to_usize(RemainingText(h)) = None)
              => ret[c] = Err("InvalidCount")
           /\ (remaining[c] # None /\ LimitMatches(h) = {} /\ UsedMatches(h) = {})
              => ret[c] = Err("MissingUsed")
           /\ (remaining[c] # None /\ LimitMatches(h) # {} /\ to_usize(LimitText(h)) = None)
              => ret[c] = Err("InvalidCount")
           /\ (LimitResolved(c) /\ "Retry-After" \notin DOMAIN h /\ ResetMatches(h) = {})
              => ret[c] = Err("MissingRemaining")
           /\ ret[c] # Err("MissingLimit")

\* A call with remaining and limit resolved and neither Retry-After nor a
\* reset header returned MissingRemaining.
C7_Witness ==
    \E c \in Threads :
        /\ Done(c)
        /\ remaining[c] # None
        /\ LimitResolved(c)
        /\ "Retry-After" \notin DOMAIN headers[c]
        /\ ResetMatches(headers[c]) = {}
        /\ ret[c] = Err("MissingRemaining")

---------------------------------------------------------------------------
(* C8 *)

\* C8: a limit header that is present and does not parse ends the call with
\* an error and no limit is derived from a used header; a Retry-After that
\* does not parse ends the call without a result, with an error once limit was
\* resolved, whatever vendor reset header is present; an error carries no
\* RateLimit value.
C8_MalformedIsTerminal ==
    \A c \in Threads :
        LET h == headers[c] IN
        Done(c)
        => /\ (LimitMatches(h) # {} /\ to_usize(LimitText(h)) = None)
              => ret[c].tag = "Err" /\ limit[c] = None
           /\ ("Retry-After" \in DOMAIN h /\ to_usize(h["Retry-After"]) = None)
              => /\ ret[c].tag # "Ok"
                 /\ LimitResolved(c) => ret[c].tag = "Err"
           /\ ret[c].tag = "Err" => DOMAIN ret[c] = {"tag", "error"}

\* A call whose limit header does not parse returned InvalidCount although
\* its used and remaining headers were present and valid.
C8_Witness ==
    \E c \in Threads :
        LET h == headers[c] IN
        /\ Done(c)
        /\ LimitMatches(h) # {}
        /\ to_usize(LimitText(h)) = None
        /\ "X-Ratelimit-Used" \in DOMAIN h
        /\ to_usize(h["X-Ratelimit-Used"]) # None
        /\ remaining[c] # None
        /\ ret[c] = Err("InvalidCount")

---------------------------------------------------------------------------
(* C9 *)

\* C9: a call in which some lock() of the registry failed returned the Lock
\* error.
C9_LockErrorSurfaced ==
    \A c \in Threads : (Done(c) /\ lock_failed[c]) => ret[c] = Err("Lock")

---------------------------------------------------------------------------
(* C10 *)

WantsLock ==
    {"get_remaining_header", "get_rate_limit_header", "get_used_header", "get_reset_header"}

HoldsLock == {"remaining_scan", "limit_scan", "used_scan", "reset_scan"}

\* The guard is held exactly during a scan, by the scanning thread alone; the
\* registry is as initialised; a finished call returned what one sequential
\* run of new on its headers returns.
C10_Safety ==
    /\ registry = RATE_LIMIT_HEADERS
    /\ \A c \in Threads : (lock = c) <=> (pc[c] \in HoldsLock)
    /\ \A c \in Threads : pc[c] \in WantsLock => lock # c
    /\ \A c \in Threads :
          Done(c) => \E oc \in BOOLEAN : ret[c] = RateLimitNew(RATE_LIMIT_HEADERS, headers[c], oc)

\* C10: in every interleaving of the concurrent calls, a thread holds the
\* guard only during one lookup and never while it requests it, the registry
\* is unchanged, every call returns what it returns when run alone, and every
\* call completes.
C10_ConcurrentCalls == []C10_Safety /\ <>(\A c \in 1..NumCalls : Done(c))

\* One thread holds the guard in a scan while another, two lookups into its
\* call, waits to take it.
C10_Witness ==
    \E c, d \in Threads :
        /\ c # d
        /\ lock = c
        /\ pc[c] = "limit_scan"
        /\ pc[d] = "get_reset_header"
        /\ LimitResolved(d)

===========================================================================
